---- MODULE Spec2Model ----
(***************************************************************************)
(* Group lifecycle management of the keep-core random beacon.             *)
(*                                                                         *)
(* Part 1 -- the group selection contract of RFC 6 (group expiration):    *)
(* the active groups list, the active groups counter, the active groups   *)
(* threshold, the expired groups list, and the two pieces of              *)
(* functionality, registration and selection with its group status        *)
(* verification (docs/rfc/rfc-6-group-expiration-minimal-specification).  *)
(*                                                                         *)
(* A selection is one contract call.  It is modelled iteration by         *)
(* iteration (pc = "selecting") so that every single expiration is a      *)
(* step of its own; no registration and no block runs inside a call.      *)
(* Pruning of the expired list (RFC 6, lines 91-92) is not part of        *)
(* RegistrySpec.                                                           *)
(*                                                                         *)
(* Part 2 -- the fault filters of a DKG group (package group):            *)
(* InactiveMemberFilter and DisqualifiedMemberFilter, which collect the    *)
(* observations of one member in one phase and flush them into the Group, *)
(* and the message filtering backed by the Group.  One filter object is   *)
(* live at a time: marks are local to a filter and read nothing of the    *)
(* Group, so every interleaving of several filters reaches the Group      *)
(* states reached by creating and marking each filter just before its     *)
(* flush.                                                                  *)
(***************************************************************************)
EXTENDS Integers, Sequences, FiniteSets

\* ------------------------------------------------------------------ bounds
MaxGroups == 3      \* registrations per run
MaxTime == 3        \* last block time
MaxTimeout == 2     \* largest group timeout, in blocks
MaxThreshold == 2   \* largest active groups threshold
GroupSize == 3      \* largest DKG group
MaxMarks == 2       \* mark calls on one filter
MaxCalls == 2       \* failed GetStakerList calls
MaxEvents == 2      \* group-registered events of the chain

\* The membership lists a formed group may have.
MemberLists == {<<1, 2, 3>>}

VARIABLES
    activeGroupList,        \* sequence of group formation agreements
    activeGroupsCounter,    \* the contract's count of active groups
    activeGroupsThreshold,  \* fixed at construction
    expiredGroupList,       \* sequence of expired agreements
    blockTime,              \* current block time
    nextId,                 \* source of unique agreement identifiers
    pc,                     \* "idle" | "selecting"
    result,                 \* outcome of the last selection
    startActive,            \* history: activeGroupList when the call began
    startCounter,           \* history: activeGroupsCounter when the call began
    callTime,               \* history: block time of the call
    evictions,              \* history: expirations made by the call so far
    shadow                  \* the registry of the same run without pruning

VARIABLES
    members,                \* Group: member indexes, fixed at formation
    inactiveMembers,        \* Group: members marked inactive so far
    disqualifiedMembers,    \* Group: members marked disqualified so far
    filter,                 \* the live filter object of the running phase
    lastCall                \* history: the last call, its argument and answer

VARIABLES
    flushLoop,              \* the loop of a flush call that is running
    flushBefore             \* history: the fault set when that call began

VARIABLES
    initPc,                 \* Initialize: the statement it is at
    initReturn,             \* Initialize: "none" | "nil" | "err"
    ctxDone,                \* ctx has been cancelled
    stakerListCalls,        \* history: GetStakerList calls made
    stakerListErr,          \* outcome of the last one: "none" | "nil" | "err"
    handlers,               \* handlers registered with the relay chain
    emitted,                \* group-registered events emitted by the chain
    registeredAt,           \* history: emitted when OnGroupRegistered was called
    pending,                \* events handed to the handler, not yet handled
    registerGroupCalls      \* history: node.RegisterGroup calls, by event

registryVars == <<activeGroupList, activeGroupsCounter, activeGroupsThreshold,
                  expiredGroupList, blockTime, nextId, pc, result,
                  startActive, startCounter, callTime, evictions, shadow>>

flushVars == <<flushLoop, flushBefore>>

groupVars == <<members, inactiveMembers, disqualifiedMembers, filter, lastCall,
               flushVars>>

beaconVars == <<initPc, initReturn, ctxDone, stakerListCalls, stakerListErr,
                handlers, emitted, registeredAt, pending, registerGroupCalls>>

vars == <<registryVars, groupVars, beaconVars>>

registry == <<activeGroupList, activeGroupsCounter, expiredGroupList>>

\* ----------------------------------------------------------------- helpers
Range(s) == {s[k] : k \in 1..Len(s)}

Ids(s) == {s[k].id : k \in 1..Len(s)}

RemoveAt(s, i) == SubSeq(s, 1, i - 1) \o SubSeq(s, i + 1, Len(s))

NoAgreement ==
    [id |-> 0, members |-> <<>>, registrationTime |-> 0, timeout |-> 0,
     state |-> "none"]

NoResult == [kind |-> "pending", agreement |-> NoAgreement]

GroupResult(agreement) == [kind |-> "group", agreement |-> agreement]

\* The outcome of a selection that finds no group to present.
NoEligibleGroupResult == [kind |-> "noEligibleGroup", agreement |-> NoAgreement]

\* ------------------------------------------------------------ registration
\* Variant: the identifier is derived from the active groups counter.
FreshId_FromCounter == activeGroupsCounter + 1

FreshId == nextId

\* Variant: the registration time is not filled in.
NewAgreement_NoTime(memberIDs, timeout) ==
    [id |-> FreshId, members |-> memberIDs, registrationTime |-> 0,
     timeout |-> timeout, state |-> "active"]

NewAgreement(memberIDs, timeout) ==
    [id |-> FreshId, members |-> memberIDs, registrationTime |-> blockTime,
     timeout |-> timeout, state |-> "active"]

\* Variant: a registration does not wait for a selection in progress.
Register_Unguarded(memberIDs, timeout) ==
    /\ nextId <= MaxGroups
    /\ activeGroupList' = Append(activeGroupList, NewAgreement(memberIDs, timeout))
    /\ activeGroupsCounter' = activeGroupsCounter + 1
    /\ nextId' = nextId + 1
    /\ UNCHANGED groupVars
    /\ UNCHANGED beaconVars
    /\ UNCHANGED <<activeGroupsThreshold, expiredGroupList, blockTime, pc,
                   result, startActive, startCounter, callTime, evictions>>

Register(memberIDs, timeout) ==
    /\ pc = "idle"
    /\ nextId <= MaxGroups
    /\ activeGroupList' = Append(activeGroupList, NewAgreement(memberIDs, timeout))
    /\ activeGroupsCounter' = activeGroupsCounter + 1
    /\ nextId' = nextId + 1
    /\ UNCHANGED groupVars
    /\ UNCHANGED beaconVars
    /\ UNCHANGED <<activeGroupsThreshold, expiredGroupList, blockTime, pc,
                   result, startActive, startCounter, callTime, evictions>>

\* A new block: the block time the contract reads advances.
Tick ==
    /\ pc = "idle"
    /\ blockTime < MaxTime
    /\ blockTime' = blockTime + 1
    /\ UNCHANGED groupVars
    /\ UNCHANGED beaconVars
    /\ UNCHANGED <<activeGroupList, activeGroupsCounter, activeGroupsThreshold,
                   expiredGroupList, nextId, pc, result, startActive,
                   startCounter, callTime, evictions>>

\* --------------------------------------------------------------- selection
\* Variant: the threshold is never consulted.
GroupsTreatedAsActive_Never == FALSE

\* Variant: the threshold comparison is off by one.
GroupsTreatedAsActive_OffByOne == activeGroupsCounter < activeGroupsThreshold - 1

\* Variant: groups are treated as active at the threshold as well.
GroupsTreatedAsActive_AtOrBelow == activeGroupsCounter <= activeGroupsThreshold

\* "If the number of active groups is below the active groups threshold all
\*  remaining groups on the active groups list are treated as active."
GroupsTreatedAsActive == activeGroupsCounter < activeGroupsThreshold

\* Variant: the comparison is not strict.
IsExpired_NonStrict(agreement, now) ==
    now >= agreement.registrationTime + agreement.timeout

\* "the current block time is larger than the group registration time plus
\*  the timeout"
IsExpired(agreement, now) == now > agreement.registrationTime + agreement.timeout

\* Variant: the agreement status is left as it was.
MarkExpired_Noop(agreement) == agreement

MarkExpired(agreement) == [agreement EXCEPT !.state = "expired"]

\* Variant: the agreement is copied to the expired list, not moved.
ActiveAfterExpiry_Keeps(i) == activeGroupList

ActiveAfterExpiry(i) == RemoveAt(activeGroupList, i)

\* Variant: the expired list is overwritten by the newly expired agreement.
ExpiredAfterExpiry_Replaces(i) == <<[activeGroupList[i] EXCEPT !.state = "expired"]>>

ExpiredAfterExpiry(i) == Append(expiredGroupList, MarkExpired(activeGroupList[i]))

\* Variant: the count of active groups is worked out from the number of
\* registrations and the length of the expired groups list.
CounterAfterExpiry_FromExpired == (nextId - 1) - (Len(expiredGroupList) + 1)

\* Variant: the counter is not decreased.
CounterAfterExpiry_Unchanged == activeGroupsCounter

CounterAfterExpiry == activeGroupsCounter - 1

\* The work contract calls the group selection contract.
SelectionCall ==
    /\ pc = "idle"
    /\ pc' = "selecting"
    /\ result' = NoResult
    /\ startActive' = activeGroupList
    /\ startCounter' = activeGroupsCounter
    /\ callTime' = blockTime
    /\ evictions' = 0
    /\ UNCHANGED groupVars
    /\ UNCHANGED beaconVars
    /\ UNCHANGED <<activeGroupList, activeGroupsCounter, activeGroupsThreshold,
                   expiredGroupList, blockTime, nextId>>

Respond(outcome) ==
    /\ pc' = "idle"
    /\ result' = outcome
    /\ UNCHANGED groupVars
    /\ UNCHANGED beaconVars
    /\ UNCHANGED <<activeGroupList, activeGroupsCounter, activeGroupsThreshold,
                   expiredGroupList, blockTime, nextId, startActive,
                   startCounter, callTime, evictions>>

\* Below the threshold: candidate i is presented without a timeout check.
TreatAsActive(i) ==
    /\ pc = "selecting"
    /\ i \in 1..Len(activeGroupList)
    /\ GroupsTreatedAsActive
    /\ Respond(GroupResult(activeGroupList[i]))

\* Otherwise candidate i is verified; it has not timed out: an active group
\* is found.
ReturnActive(i) ==
    /\ pc = "selecting"
    /\ i \in 1..Len(activeGroupList)
    /\ ~GroupsTreatedAsActive
    /\ ~IsExpired(activeGroupList[i], blockTime)
    /\ Respond(GroupResult(activeGroupList[i]))

\* Variant: the candidate that has just been expired is presented anyway,
\* no next group is selected.
ExpireGroup_Responds(i) ==
    /\ pc = "selecting"
    /\ i \in 1..Len(activeGroupList)
    /\ ~GroupsTreatedAsActive
    /\ IsExpired(activeGroupList[i], blockTime)
    /\ expiredGroupList' = ExpiredAfterExpiry(i)
    /\ activeGroupList' = ActiveAfterExpiry(i)
    /\ activeGroupsCounter' = CounterAfterExpiry
    /\ evictions' = evictions + 1
    /\ pc' = "idle"
    /\ result' = GroupResult(MarkExpired(activeGroupList[i]))
    /\ UNCHANGED groupVars
    /\ UNCHANGED beaconVars
    /\ UNCHANGED <<activeGroupsThreshold, blockTime, nextId, startActive,
                   startCounter, callTime>>

\* Otherwise candidate i is verified; it has timed out: it is expired, and
\* the next group is selected.
ExpireGroup(i) ==
    /\ pc = "selecting"
    /\ i \in 1..Len(activeGroupList)
    /\ ~GroupsTreatedAsActive
    /\ IsExpired(activeGroupList[i], blockTime)
    /\ expiredGroupList' = ExpiredAfterExpiry(i)
    /\ activeGroupList' = ActiveAfterExpiry(i)
    /\ activeGroupsCounter' = CounterAfterExpiry
    /\ evictions' = evictions + 1
    /\ UNCHANGED groupVars
    /\ UNCHANGED beaconVars
    /\ UNCHANGED <<activeGroupsThreshold, blockTime, nextId, pc, result,
                   startActive, startCounter, callTime>>

\* There is no group left to select from.
NoEligibleGroup ==
    /\ pc = "selecting"
    /\ Len(activeGroupList) = 0
    /\ Respond(NoEligibleGroupResult)

SelectionStep ==
    \/ \E i \in 1..Len(activeGroupList) : TreatAsActive(i)
    \/ \E i \in 1..Len(activeGroupList) : ReturnActive(i)
    \/ \E i \in 1..Len(activeGroupList) : ExpireGroup(i)
    \/ NoEligibleGroup

\* ----------------------------------------------------------------- pruning
\* "Expired groups need not be tracked for an unlimited time.  They might be
\*  removed when deemed unnecessary": the k-th expired agreement is removed.
Prune(k) ==
    /\ pc = "idle"
    /\ k \in 1..Len(expiredGroupList)
    /\ expiredGroupList' = RemoveAt(expiredGroupList, k)
    /\ UNCHANGED groupVars
    /\ UNCHANGED beaconVars
    /\ UNCHANGED <<activeGroupList, activeGroupsCounter, activeGroupsThreshold,
                   blockTime, nextId, pc, result, startActive, startCounter,
                   callTime, evictions, shadow>>

\* The same run without pruning: a second registry that is given every
\* registration, every selection call and every random candidate the
\* registry is given, and no pruning.
ShadowConstructed ==
    [activeGroupList |-> <<>>, activeGroupsCounter |-> 0,
     expiredGroupList |-> <<>>, pc |-> "idle", result |-> NoResult]

ShadowRegister(memberIDs, timeout) ==
    shadow' = [shadow EXCEPT
                   !.activeGroupList = Append(@, NewAgreement(memberIDs, timeout)),
                   !.activeGroupsCounter = @ + 1]

ShadowSelectionCall ==
    shadow' = [shadow EXCEPT !.pc = "selecting", !.result = NoResult]

\* One iteration of the selection on the second registry, with candidate i.
ShadowSelectionStep(i) ==
    shadow' =
        IF shadow.pc # "selecting" THEN shadow
        ELSE IF ~(i \in 1..Len(shadow.activeGroupList))
        THEN [shadow EXCEPT !.pc = "idle", !.result = NoEligibleGroupResult]
        ELSE IF shadow.activeGroupsCounter < activeGroupsThreshold
                    \/ ~IsExpired(shadow.activeGroupList[i], blockTime)
        THEN [shadow EXCEPT !.pc = "idle",
                            !.result = GroupResult(shadow.activeGroupList[i])]
        ELSE [shadow EXCEPT
                  !.expiredGroupList =
                      Append(@, MarkExpired(shadow.activeGroupList[i])),
                  !.activeGroupList = RemoveAt(@, i),
                  !.activeGroupsCounter = @ - 1]

\* =========================================================== fault filters
\* The MemberIndex values calls are made with: the members of the largest
\* group and one index that is in no group.
MemberIndexes == 1..(GroupSize + 1)

\* ------------------------------------------------------------------- Group
\* The members that are neither inactive nor disqualified, in member order.
GroupOperatingMemberIDs ==
    SelectSeq(members,
              LAMBDA m : m \notin inactiveMembers /\ m \notin disqualifiedMembers)

GroupMarkMemberAsInactive(inactive, memberID) == inactive \cup {memberID}

GroupMarkMemberAsDisqualified(disqualified, memberID) ==
    disqualified \cup {memberID}

\* Group's implementation of MessageFiltering.
GroupIsSenderAccepted(senderID) ==
    /\ \E k \in 1..Len(members) : members[k] = senderID
    /\ senderID \notin disqualifiedMembers \cup inactiveMembers

\* ---------------------------------------------------------------- messages
ProtocolMessage(senderID) == [senderID |-> senderID]

SenderID(message) == message.senderID

IsMessageFromSelf(memberIndex, message) ==
    IF SenderID(message) = memberIndex THEN TRUE ELSE FALSE

\* Variant: the sender is not looked at, every message is accepted.
IsSenderAccepted_Always(message) == TRUE

\* Variant: only the fault lists are consulted, not the membership.
IsSenderAccepted_FaultsOnly(message) ==
    SenderID(message) \notin inactiveMembers \cup disqualifiedMembers

IsSenderAccepted(message) == GroupIsSenderAccepted(SenderID(message))

\* ----------------------------------------------------------------- filters
NoFilter ==
    [type |-> "none", selfMemberID |-> 0,
     phaseActiveMembers |-> <<>>, phaseDisqualifiedMembers |-> <<>>]

NoCall == [op |-> "none", arg |-> 0, answer |-> FALSE]

Call(op, arg, answer) == [op |-> op, arg |-> arg, answer |-> answer]

\* Variant: the new filter takes over the marks of the filter before it.
NewInactiveMemberFilter_KeepsMarks(selfMemberIndex) ==
    /\ filter' = [type |-> "InactiveMemberFilter",
                  selfMemberID |-> selfMemberIndex,
                  phaseActiveMembers |-> filter.phaseActiveMembers,
                  phaseDisqualifiedMembers |-> <<>>]
    /\ lastCall' = Call("NewInactiveMemberFilter", selfMemberIndex, FALSE)
    /\ UNCHANGED <<members, inactiveMembers, disqualifiedMembers>>
    /\ UNCHANGED flushVars
    /\ UNCHANGED registryVars
    /\ UNCHANGED beaconVars

NewInactiveMemberFilter(selfMemberIndex) ==
    /\ filter' = [type |-> "InactiveMemberFilter",
                  selfMemberID |-> selfMemberIndex,
                  phaseActiveMembers |-> <<>>,
                  phaseDisqualifiedMembers |-> <<>>]
    /\ lastCall' = Call("NewInactiveMemberFilter", selfMemberIndex, FALSE)
    /\ UNCHANGED <<members, inactiveMembers, disqualifiedMembers>>
    /\ UNCHANGED flushVars
    /\ UNCHANGED registryVars
    /\ UNCHANGED beaconVars

\* Variant: a second mark of a member takes its first mark back.
MarkMemberAsActive_Toggles(memberID) ==
    /\ filter.type = "InactiveMemberFilter"
    /\ Len(filter.phaseActiveMembers) < MaxMarks
    /\ filter' = [filter EXCEPT
                      !.phaseActiveMembers =
                          IF memberID \in Range(@)
                          THEN SelectSeq(@, LAMBDA m : m # memberID)
                          ELSE Append(@, memberID)]
    /\ lastCall' = Call("MarkMemberAsActive", memberID, FALSE)
    /\ UNCHANGED <<members, inactiveMembers, disqualifiedMembers>>
    /\ UNCHANGED flushVars
    /\ UNCHANGED registryVars
    /\ UNCHANGED beaconVars

MarkMemberAsActive(memberID) ==
    /\ filter.type = "InactiveMemberFilter"
    /\ Len(filter.phaseActiveMembers) < MaxMarks
    /\ filter' = [filter EXCEPT
                      !.phaseActiveMembers = Append(@, memberID)]
    /\ lastCall' = Call("MarkMemberAsActive", memberID, FALSE)
    /\ UNCHANGED <<members, inactiveMembers, disqualifiedMembers>>
    /\ UNCHANGED flushVars
    /\ UNCHANGED registryVars
    /\ UNCHANGED beaconVars

\* Variant: the filter's own member gets no exemption.
isActive_NoSelf(id) ==
    \E k \in 1..Len(filter.phaseActiveMembers) :
        filter.phaseActiveMembers[k] = id

\* Variant: only the first mark of the phase is looked at.
isActive_FirstOnly(id) ==
    \/ id = filter.selfMemberID
    \/ /\ Len(filter.phaseActiveMembers) > 0
       /\ filter.phaseActiveMembers[1] = id

isActive(id) ==
    IF id = filter.selfMemberID
    THEN TRUE
    ELSE \E k \in 1..Len(filter.phaseActiveMembers) :
             filter.phaseActiveMembers[k] = id

\* Variant: the Group's inactive list is overwritten by this phase's.
InactiveAfterFlush_Rebuilds(operating, k, inactive) ==
    {operating[j] : j \in {i \in k..Len(operating) : ~isActive(operating[i])}}

\* Variant: the loop returns at the first member it marks inactive.
InactiveAfterFlush_FirstFound(operating, k, inactive) ==
    LET found == {i \in k..Len(operating) : ~isActive(operating[i])}
    IN  IF found = {}
        THEN inactive
        ELSE inactive \cup
                 {operating[CHOOSE i \in found : \A j \in found : i <= j]}

\* Variant: the loop stops one member short.
InactiveAfterFlush_StopsShort(operating, k, inactive) ==
    inactive \cup
        {operating[j] :
             j \in {i \in k..(Len(operating) - 1) : ~isActive(operating[i])}}

\* The loop of FlushInactiveMembers over the operating members, from the
\* k-th on; inactive is the Group's inactive set so far.
RECURSIVE InactiveAfterFlush(_, _, _)
InactiveAfterFlush(operating, k, inactive) ==
    IF k > Len(operating)
    THEN inactive
    ELSE InactiveAfterFlush(
             operating, k + 1,
             IF ~isActive(operating[k])
             THEN GroupMarkMemberAsInactive(inactive, operating[k])
             ELSE inactive)

\* Variant: the members found inactive are taken out of the member list.
FlushInactiveMembers_DropsMembers ==
    /\ filter.type = "InactiveMemberFilter"
    /\ inactiveMembers' =
           InactiveAfterFlush(GroupOperatingMemberIDs, 1, inactiveMembers)
    /\ members' = SelectSeq(members, LAMBDA m : m \notin inactiveMembers')
    /\ lastCall' = Call("FlushInactiveMembers", 0, FALSE)
    /\ UNCHANGED <<disqualifiedMembers, filter>>
    /\ UNCHANGED flushVars
    /\ UNCHANGED registryVars
    /\ UNCHANGED beaconVars

\* Variant: the members found inactive are put on the disqualified list.
FlushInactiveMembers_WritesDisqualified ==
    /\ filter.type = "InactiveMemberFilter"
    /\ disqualifiedMembers' =
           InactiveAfterFlush(GroupOperatingMemberIDs, 1, disqualifiedMembers)
    /\ lastCall' = Call("FlushInactiveMembers", 0, FALSE)
    /\ UNCHANGED <<members, inactiveMembers, filter>>
    /\ UNCHANGED flushVars
    /\ UNCHANGED registryVars
    /\ UNCHANGED beaconVars

FlushInactiveMembers ==
    /\ filter.type = "InactiveMemberFilter"
    /\ inactiveMembers' =
           InactiveAfterFlush(GroupOperatingMemberIDs, 1, inactiveMembers)
    /\ lastCall' = Call("FlushInactiveMembers", 0, FALSE)
    /\ UNCHANGED <<members, disqualifiedMembers, filter>>
    /\ UNCHANGED flushVars
    /\ UNCHANGED registryVars
    /\ UNCHANGED beaconVars

NewDisqualifiedMemberFilter(selfMemberIndex) ==
    /\ filter' = [type |-> "DisqualifiedMemberFilter",
                  selfMemberID |-> selfMemberIndex,
                  phaseActiveMembers |-> <<>>,
                  phaseDisqualifiedMembers |-> <<>>]
    /\ lastCall' = Call("NewDisqualifiedMemberFilter", selfMemberIndex, FALSE)
    /\ UNCHANGED <<members, inactiveMembers, disqualifiedMembers>>
    /\ UNCHANGED flushVars
    /\ UNCHANGED registryVars
    /\ UNCHANGED beaconVars

MarkMemberAsDisqualified(memberID) ==
    /\ filter.type = "DisqualifiedMemberFilter"
    /\ Len(filter.phaseDisqualifiedMembers) < MaxMarks
    /\ filter' = [filter EXCEPT
                      !.phaseDisqualifiedMembers = Append(@, memberID)]
    /\ lastCall' = Call("MarkMemberAsDisqualified", memberID, FALSE)
    /\ UNCHANGED <<members, inactiveMembers, disqualifiedMembers>>
    /\ UNCHANGED flushVars
    /\ UNCHANGED registryVars
    /\ UNCHANGED beaconVars

\* Variant: the filter's own member gets no exemption.
isDisqualified_NoSelf(id) ==
    \E k \in 1..Len(filter.phaseDisqualifiedMembers) :
        filter.phaseDisqualifiedMembers[k] = id

\* Variant: a member without a mark is taken as disqualified.
isDisqualified_Inverted(id) ==
    IF id = filter.selfMemberID
    THEN FALSE
    ELSE ~\E k \in 1..Len(filter.phaseDisqualifiedMembers) :
              filter.phaseDisqualifiedMembers[k] = id

isDisqualified(id) ==
    IF id = filter.selfMemberID
    THEN FALSE
    ELSE \E k \in 1..Len(filter.phaseDisqualifiedMembers) :
             filter.phaseDisqualifiedMembers[k] = id

\* Variant: the loop goes over the marks, not over the operating members.
DisqualifiedAfterFlush_OverMarks(operating, k, disqualified) ==
    disqualified \cup
        (Range(filter.phaseDisqualifiedMembers) \ {filter.selfMemberID})

\* The loop of FlushDisqualifiedMembers over the operating members.
RECURSIVE DisqualifiedAfterFlush(_, _, _)
DisqualifiedAfterFlush(operating, k, disqualified) ==
    IF k > Len(operating)
    THEN disqualified
    ELSE DisqualifiedAfterFlush(
             operating, k + 1,
             IF isDisqualified(operating[k])
             THEN GroupMarkMemberAsDisqualified(disqualified, operating[k])
             ELSE disqualified)

\* Variant: the flush goes over all members of the group.
FlushDisqualifiedMembers_AllMembers ==
    /\ filter.type = "DisqualifiedMemberFilter"
    /\ disqualifiedMembers' =
           DisqualifiedAfterFlush(members, 1, disqualifiedMembers)
    /\ lastCall' = Call("FlushDisqualifiedMembers", 0, FALSE)
    /\ UNCHANGED <<members, inactiveMembers, filter>>
    /\ UNCHANGED flushVars
    /\ UNCHANGED registryVars
    /\ UNCHANGED beaconVars

FlushDisqualifiedMembers ==
    /\ filter.type = "DisqualifiedMemberFilter"
    /\ disqualifiedMembers' =
           DisqualifiedAfterFlush(GroupOperatingMemberIDs, 1, disqualifiedMembers)
    /\ lastCall' = Call("FlushDisqualifiedMembers", 0, FALSE)
    /\ UNCHANGED <<members, inactiveMembers, filter>>
    /\ UNCHANGED flushVars
    /\ UNCHANGED registryVars
    /\ UNCHANGED beaconVars

\* A message of sender senderID arrives and is filtered.
FilterMessage(senderID) ==
    /\ lastCall' = Call("IsSenderAccepted", senderID,
                        IsSenderAccepted(ProtocolMessage(senderID)))
    /\ UNCHANGED <<members, inactiveMembers, disqualifiedMembers, filter>>
    /\ UNCHANGED flushVars
    /\ UNCHANGED registryVars
    /\ UNCHANGED beaconVars

\* ------------------------------------------------- a flush, step by step
\* No flush call is running.
NoLoop == [operating |-> <<>>, k |-> 0]

\* FlushInactiveMembers is called: the range expression
\* mf.group.OperatingMemberIDs() is evaluated, once, before the loop.
FlushInactiveMembersCall ==
    /\ filter.type = "InactiveMemberFilter"
    /\ flushLoop = NoLoop
    /\ flushLoop' = [operating |-> GroupOperatingMemberIDs, k |-> 1]
    /\ flushBefore' = inactiveMembers
    /\ lastCall' = Call("FlushInactiveMembers", 0, FALSE)
    /\ UNCHANGED <<members, inactiveMembers, disqualifiedMembers, filter>>
    /\ UNCHANGED registryVars
    /\ UNCHANGED beaconVars

\* One iteration of the loop of FlushInactiveMembers.
FlushInactiveMembersIteration ==
    /\ filter.type = "InactiveMemberFilter"
    /\ flushLoop.k \in 1..Len(flushLoop.operating)
    /\ inactiveMembers' =
           IF ~isActive(flushLoop.operating[flushLoop.k])
           THEN GroupMarkMemberAsInactive(inactiveMembers,
                                          flushLoop.operating[flushLoop.k])
           ELSE inactiveMembers
    /\ flushLoop' = [flushLoop EXCEPT !.k = @ + 1]
    /\ UNCHANGED <<members, disqualifiedMembers, filter, lastCall, flushBefore>>
    /\ UNCHANGED registryVars
    /\ UNCHANGED beaconVars

\* FlushDisqualifiedMembers is called.
FlushDisqualifiedMembersCall ==
    /\ filter.type = "DisqualifiedMemberFilter"
    /\ flushLoop = NoLoop
    /\ flushLoop' = [operating |-> GroupOperatingMemberIDs, k |-> 1]
    /\ flushBefore' = disqualifiedMembers
    /\ lastCall' = Call("FlushDisqualifiedMembers", 0, FALSE)
    /\ UNCHANGED <<members, inactiveMembers, disqualifiedMembers, filter>>
    /\ UNCHANGED registryVars
    /\ UNCHANGED beaconVars

\* One iteration of the loop of FlushDisqualifiedMembers.
FlushDisqualifiedMembersIteration ==
    /\ filter.type = "DisqualifiedMemberFilter"
    /\ flushLoop.k \in 1..Len(flushLoop.operating)
    /\ disqualifiedMembers' =
           IF isDisqualified(flushLoop.operating[flushLoop.k])
           THEN GroupMarkMemberAsDisqualified(disqualifiedMembers,
                                              flushLoop.operating[flushLoop.k])
           ELSE disqualifiedMembers
    /\ flushLoop' = [flushLoop EXCEPT !.k = @ + 1]
    /\ UNCHANGED <<members, inactiveMembers, filter, lastCall, flushBefore>>
    /\ UNCHANGED registryVars
    /\ UNCHANGED beaconVars

\* The loop is over: the flush call returns.
FlushReturn ==
    /\ flushLoop # NoLoop
    /\ flushLoop.k > Len(flushLoop.operating)
    /\ flushLoop' = NoLoop
    /\ UNCHANGED <<members, inactiveMembers, disqualifiedMembers, filter,
                   lastCall, flushBefore>>
    /\ UNCHANGED registryVars
    /\ UNCHANGED beaconVars

\* ================================================================== beacon
\* Initialize has not been called.
NotInitialized ==
    /\ initPc = "GetConfig"
    /\ initReturn = "none"
    /\ ctxDone = FALSE
    /\ stakerListCalls = 0
    /\ stakerListErr = "none"
    /\ handlers = {}
    /\ emitted = 0
    /\ registeredAt = 0
    /\ pending = {}
    /\ registerGroupCalls = <<>>

chainVars == <<ctxDone, emitted, pending, registerGroupCalls>>

\* checkParticipantState returns staked, nil.
checkParticipantState == "staked"

\* chainConfig, err := relayChain.GetConfig(); an error is returned.
GetConfig ==
    /\ initPc = "GetConfig"
    /\ \/ initPc' = "returned" /\ initReturn' = "err"
       \/ initPc' = "StakerFor" /\ UNCHANGED initReturn
    /\ UNCHANGED <<stakerListCalls, stakerListErr, handlers, registeredAt>>
    /\ UNCHANGED chainVars
    /\ UNCHANGED registryVars
    /\ UNCHANGED groupVars

\* checkParticipantState, stakeMonitor.StakerFor, relay.NewNode and the
\* switch on the participant state, up to the call of
\* syncStakingListWithRetry.
StakerFor ==
    /\ initPc = "StakerFor"
    /\ \/ initPc' = "returned" /\ initReturn' = "err"
       \/ /\ initPc' = IF checkParticipantState = "unstaked"
                       THEN "returned" ELSE "NewTimer"
          /\ initReturn' = IF checkParticipantState = "unstaked"
                           THEN "err" ELSE initReturn
    /\ UNCHANGED <<stakerListCalls, stakerListErr, handlers, registeredAt>>
    /\ UNCHANGED chainVars
    /\ UNCHANGED registryVars
    /\ UNCHANGED groupVars

\* syncStakingListWithRetry, one turn of its loop up to the call: a timer of
\* one nanosecond is made and the select waits for it.
NewTimer ==
    /\ initPc = "NewTimer"
    /\ initPc' = "GetStakerList"
    /\ UNCHANGED <<initReturn, stakerListCalls, stakerListErr, handlers,
                   registeredAt>>
    /\ UNCHANGED chainVars
    /\ UNCHANGED registryVars
    /\ UNCHANGED groupVars

\* Variant: a failed call ends syncStakingListWithRetry.
GetStakerListFails_Returns ==
    /\ initPc = "GetStakerList"
    /\ stakerListCalls < MaxCalls
    /\ stakerListCalls' = stakerListCalls + 1
    /\ stakerListErr' = "err"
    /\ initPc' = "OnRelayEntryRequested"
    /\ UNCHANGED <<initReturn, handlers, registeredAt>>
    /\ UNCHANGED chainVars
    /\ UNCHANGED registryVars
    /\ UNCHANGED groupVars

\* relayChain.GetStakerList() returns an error: it is printed, the timer of
\* this turn is reset and the loop continues with a new turn (and a new
\* timer).
GetStakerListFails ==
    /\ initPc = "GetStakerList"
    /\ stakerListCalls < MaxCalls
    /\ stakerListCalls' = stakerListCalls + 1
    /\ stakerListErr' = "err"
    /\ initPc' = "NewTimer"
    /\ UNCHANGED <<initReturn, handlers, registeredAt>>
    /\ UNCHANGED chainVars
    /\ UNCHANGED registryVars
    /\ UNCHANGED groupVars

\* relayChain.GetStakerList() returns no error: syncStakingListWithRetry
\* returns.
GetStakerListSucceeds ==
    /\ initPc = "GetStakerList"
    /\ stakerListCalls' = stakerListCalls + 1
    /\ stakerListErr' = "nil"
    /\ initPc' = "OnRelayEntryRequested"
    /\ UNCHANGED <<initReturn, handlers, registeredAt>>
    /\ UNCHANGED chainVars
    /\ UNCHANGED registryVars
    /\ UNCHANGED groupVars

OnRelayEntryRequested ==
    /\ initPc = "OnRelayEntryRequested"
    /\ handlers' = handlers \cup {"RelayEntryRequested"}
    /\ initPc' = "OnRelayEntryGenerated"
    /\ UNCHANGED <<initReturn, stakerListCalls, stakerListErr, registeredAt>>
    /\ UNCHANGED chainVars
    /\ UNCHANGED registryVars
    /\ UNCHANGED groupVars

OnRelayEntryGenerated ==
    /\ initPc = "OnRelayEntryGenerated"
    /\ handlers' = handlers \cup {"RelayEntryGenerated"}
    /\ initPc' = "OnGroupRegistered"
    /\ UNCHANGED <<initReturn, stakerListCalls, stakerListErr, registeredAt>>
    /\ UNCHANGED chainVars
    /\ UNCHANGED registryVars
    /\ UNCHANGED groupVars

OnGroupRegistered ==
    /\ initPc = "OnGroupRegistered"
    /\ handlers' = handlers \cup {"GroupRegistered"}
    /\ registeredAt' = emitted
    /\ initPc' = "ctx.Done"
    /\ UNCHANGED <<initReturn, stakerListCalls, stakerListErr>>
    /\ UNCHANGED chainVars
    /\ UNCHANGED registryVars
    /\ UNCHANGED groupVars

\* <-ctx.Done() and return nil.
CtxDone ==
    /\ initPc = "ctx.Done"
    /\ ctxDone
    /\ initPc' = "returned"
    /\ initReturn' = "nil"
    /\ UNCHANGED <<stakerListCalls, stakerListErr, handlers, registeredAt>>
    /\ UNCHANGED chainVars
    /\ UNCHANGED registryVars
    /\ UNCHANGED groupVars

\* The caller of Initialize cancels ctx.
Cancel ==
    /\ ~ctxDone
    /\ ctxDone' = TRUE
    /\ UNCHANGED <<initPc, initReturn, stakerListCalls, stakerListErr,
                   handlers, emitted, registeredAt, pending,
                   registerGroupCalls>>
    /\ UNCHANGED registryVars
    /\ UNCHANGED groupVars

\* The chain emits a group-registered event; it is handed to the handler
\* registered with OnGroupRegistered, if one is.
GroupRegisteredEvent ==
    /\ emitted < MaxEvents
    /\ emitted' = emitted + 1
    /\ pending' = IF "GroupRegistered" \in handlers
                  THEN pending \cup {emitted + 1}
                  ELSE pending
    /\ UNCHANGED <<initPc, initReturn, ctxDone, stakerListCalls,
                   stakerListErr, handlers, registeredAt, registerGroupCalls>>
    /\ UNCHANGED registryVars
    /\ UNCHANGED groupVars

\* The handler given to OnGroupRegistered runs for the event e: one call of
\* node.RegisterGroup.
GroupRegisteredHandler(e) ==
    /\ e \in pending
    /\ pending' = pending \ {e}
    /\ registerGroupCalls' = Append(registerGroupCalls, e)
    /\ UNCHANGED <<initPc, initReturn, ctxDone, stakerListCalls,
                   stakerListErr, handlers, emitted, registeredAt>>
    /\ UNCHANGED registryVars
    /\ UNCHANGED groupVars

\* A step of Initialize.
Initialize ==
    \/ GetConfig
    \/ StakerFor
    \/ NewTimer
    \/ GetStakerListFails
    \/ GetStakerListSucceeds
    \/ OnRelayEntryRequested
    \/ OnRelayEntryGenerated
    \/ OnGroupRegistered
    \/ CtxDone

\* The state of a Group at formation, of size n.
GroupFormed(n) ==
    /\ members = [k \in 1..n |-> k]
    /\ inactiveMembers = {}
    /\ disqualifiedMembers = {}
    /\ filter = NoFilter
    /\ lastCall = NoCall
    /\ flushLoop = NoLoop
    /\ flushBefore = {}

\* ---------------------------------------------------------- specifications
RegistryInit ==
    /\ GroupFormed(1)
    /\ activeGroupList = <<>>
    /\ activeGroupsCounter = 0
    /\ activeGroupsThreshold \in 0..MaxThreshold
    /\ expiredGroupList = <<>>
    /\ blockTime = 0
    /\ nextId = 1
    /\ pc = "idle"
    /\ result = NoResult
    /\ startActive = <<>>
    /\ startCounter = 0
    /\ callTime = 0
    /\ evictions = 0
    /\ shadow = ShadowConstructed
    /\ NotInitialized

RegistryNext ==
    \/ \E m \in MemberLists, t \in 1..MaxTimeout :
           Register(m, t) /\ UNCHANGED shadow
    \/ Tick /\ UNCHANGED shadow
    \/ SelectionCall /\ UNCHANGED shadow
    \/ SelectionStep /\ UNCHANGED shadow

RegistrySpec == RegistryInit /\ [][RegistryNext]_vars

\* The registry before any registration, with the threshold t.
RegistryConstructed(t) ==
    /\ activeGroupList = <<>>
    /\ activeGroupsCounter = 0
    /\ activeGroupsThreshold = t
    /\ expiredGroupList = <<>>
    /\ blockTime = 0
    /\ nextId = 1
    /\ pc = "idle"
    /\ result = NoResult
    /\ startActive = <<>>
    /\ startCounter = 0
    /\ callTime = 0
    /\ evictions = 0
    /\ shadow = ShadowConstructed
    /\ NotInitialized

GroupInit ==
    /\ RegistryConstructed(0)
    /\ \E n \in 1..GroupSize : GroupFormed(n)

GroupNext ==
    \/ \E m \in Range(members) : NewInactiveMemberFilter(m)
    \/ \E id \in MemberIndexes : MarkMemberAsActive(id)
    \/ FlushInactiveMembers
    \/ \E m \in Range(members) : NewDisqualifiedMemberFilter(m)
    \/ \E id \in MemberIndexes : MarkMemberAsDisqualified(id)
    \/ FlushDisqualifiedMembers
    \/ \E id \in MemberIndexes : FilterMessage(id)

GroupSpec == GroupInit /\ [][GroupNext]_vars

\* The registry with pruning, run side by side with the same run without.
PruneInit == RegistryInit

PruneNext ==
    \/ \E m \in MemberLists, t \in 1..MaxTimeout :
           Register(m, t) /\ ShadowRegister(m, t)
    \/ Tick /\ UNCHANGED shadow
    \/ SelectionCall /\ ShadowSelectionCall
    \/ \E i \in 1..Len(activeGroupList) :
           TreatAsActive(i) /\ ShadowSelectionStep(i)
    \/ \E i \in 1..Len(activeGroupList) :
           ReturnActive(i) /\ ShadowSelectionStep(i)
    \/ \E i \in 1..Len(activeGroupList) :
           ExpireGroup(i) /\ ShadowSelectionStep(i)
    \/ NoEligibleGroup /\ ShadowSelectionStep(0)
    \/ \E k \in 1..Len(expiredGroupList) : Prune(k)

PruneSpec == PruneInit /\ [][PruneNext]_vars

\* Initialize, the caller that cancels its context and the relay chain.  The
\* goroutine of Initialize and the handlers handed to the chain get to run.
BeaconInit == RegistryConstructed(0) /\ GroupFormed(1)

BeaconNext ==
    \/ GetConfig
    \/ StakerFor
    \/ NewTimer
    \/ GetStakerListFails
    \/ GetStakerListSucceeds
    \/ OnRelayEntryRequested
    \/ OnRelayEntryGenerated
    \/ OnGroupRegistered
    \/ CtxDone
    \/ Cancel
    \/ GroupRegisteredEvent
    \/ \E e \in 1..MaxEvents : GroupRegisteredHandler(e)

BeaconSpec ==
    /\ BeaconInit
    /\ [][BeaconNext]_vars
    /\ WF_vars(Initialize)
    /\ \A e \in 1..MaxEvents : WF_vars(GroupRegisteredHandler(e))

\* The phases of one member with the flushes taken loop iteration by loop
\* iteration.  The phase's own calls are made one after the other; messages
\* are filtered at any time, between the iterations of a flush as well.
PhaseInit == GroupInit

PhaseNext ==
    \/ /\ flushLoop = NoLoop
       /\ \/ \E m \in Range(members) : NewInactiveMemberFilter(m)
          \/ \E id \in MemberIndexes : MarkMemberAsActive(id)
          \/ \E m \in Range(members) : NewDisqualifiedMemberFilter(m)
          \/ \E id \in MemberIndexes : MarkMemberAsDisqualified(id)
    \/ FlushInactiveMembersCall
    \/ FlushInactiveMembersIteration
    \/ FlushDisqualifiedMembersCall
    \/ FlushDisqualifiedMembersIteration
    \/ FlushReturn
    \/ \E id \in MemberIndexes : FilterMessage(id)

PhaseSpec == PhaseInit /\ [][PhaseNext]_vars

\* ================================================================== claims
Max0(n) == IF n > 0 THEN n ELSE 0

\* A step of a selection that changes the registry.
RegistryChanges == registry' # registry

\* Agreement g of the active list is moved by this step: taken out of the
\* active list (the others keeping their order), appended to the expired
\* list with state expired and nothing else of it changed.
Moved(i) ==
    /\ activeGroupList' = RemoveAt(activeGroupList, i)
    /\ expiredGroupList' =
           Append(expiredGroupList, [activeGroupList[i] EXCEPT !.state = "expired"])

C2_ThresholdGuard_AsClaimed ==
    [][(pc = "selecting" /\ activeGroupsCounter <= activeGroupsThreshold)
          => UNCHANGED registry]_vars

\* C2 amended: whenever the counter is strictly below the threshold
\* (counter < T), a selection moves no agreement from the active to the
\* expired list and changes no agreement's state, however far the block time
\* is past registrationTime + timeout; a non-empty active list then yields
\* one of its agreements as the response.
C2_ThresholdGuard ==
    [][(pc = "selecting" /\ activeGroupsCounter < activeGroupsThreshold)
          => /\ UNCHANGED registry
             /\ pc' = "idle"
             /\ (activeGroupList # <<>> =>
                    /\ result'.kind = "group"
                    /\ result'.agreement \in Range(activeGroupList))]_vars

\* With T = 2, a call has expired groups until one is left and has responded
\* with that group, whose timeout has elapsed as well.
C2_Witness ==
    /\ pc = "idle"
    /\ activeGroupsThreshold = 2
    /\ blockTime = callTime
    /\ evictions = 2
    /\ activeGroupsCounter = 1
    /\ result.kind = "group"
    /\ result.agreement \in Range(activeGroupList)
    /\ callTime > result.agreement.registrationTime + result.agreement.timeout

\* ---------------------------------------------------------------------- C3
\* C3: every agreement ever registered (identifiers 1 .. nextId - 1) is in
\* exactly one of the active and the expired list, once, and its state is
\* active iff the active list holds it and expired iff the expired list does.
C3_Partition ==
    /\ \A id \in 1..(nextId - 1) :
           (id \in Ids(activeGroupList)) # (id \in Ids(expiredGroupList))
    /\ Ids(activeGroupList) \cup Ids(expiredGroupList) \subseteq 1..(nextId - 1)
    /\ Cardinality(Ids(activeGroupList)) = Len(activeGroupList)
    /\ Cardinality(Ids(expiredGroupList)) = Len(expiredGroupList)
    /\ \A g \in Range(activeGroupList) : g.state = "active"
    /\ \A g \in Range(expiredGroupList) : g.state = "expired"

\* Registrations and selections have left agreements in both lists.
C3_Witness ==
    /\ pc = "idle"
    /\ nextId = 4
    /\ Len(activeGroupList) = 1
    /\ Len(expiredGroupList) = 2

\* ---------------------------------------------------------------------- C4
\* C4: between registry operations the active groups counter equals the
\* number of entries of the active groups list.
C4_CounterLockstep ==
    pc = "idle" => activeGroupsCounter = Len(activeGroupList)

\* A selection that expired a group has ended, and a group registered later
\* is on the list.
C4_Witness ==
    /\ pc = "idle"
    /\ evictions >= 1
    /\ Len(expiredGroupList) >= 1
    /\ activeGroupsCounter = 2
    /\ \E g \in Range(activeGroupList) : g.registrationTime > callTime

\* ---------------------------------------------------------------------- C5
\* C5: each single expiration step of a selection decreases the counter by
\* exactly 1, removes exactly the checked candidate from the active list,
\* appends exactly that agreement to the expired list with state expired, and
\* leaves every other agreement's list membership, state, registrationTime
\* and timeout unchanged.
C5_DecrementCorrect ==
    [][(pc = "selecting" /\ RegistryChanges) =>
          /\ activeGroupsCounter' = activeGroupsCounter - 1
          /\ \E i \in 1..Len(activeGroupList) :
                 /\ blockTime > activeGroupList[i].registrationTime
                                    + activeGroupList[i].timeout
                 /\ Moved(i)]_vars

\* An expiration has taken the middle agreement out of a list of three.
C5_Witness ==
    /\ pc = "selecting"
    /\ evictions = 1
    /\ Len(startActive) = 3
    /\ activeGroupList = <<startActive[1], startActive[3]>>
    /\ expiredGroupList = <<[startActive[2] EXCEPT !.state = "expired"]>>
    /\ activeGroupsCounter = 2
\* ---------------------------------------------------------------------- C6
\* The states of the agreements that carry identifier id, in either list.
AgreementStates(id) ==
    {g.state : g \in {h \in Range(activeGroupList) \cup Range(expiredGroupList) :
                          h.id = id}}

\* C6: once an agreement's state is expired it is expired ever after and
\* never re-enters the active list, under any later registration or
\* selection; active -> expired is the only state transition that occurs.
C6_OneWayLifecycle ==
    [][\A id \in 1..MaxGroups :
          /\ ("expired" \in AgreementStates(id) =>
                 /\ AgreementStates(id)' = {"expired"}
                 /\ id \notin Ids(activeGroupList'))
          /\ (AgreementStates(id) = {"active"} =>
                 AgreementStates(id)' \in {{"active"}, {"expired"}})
          /\ (AgreementStates(id) = {} =>
                 AgreementStates(id)' \in {{}, {"active"}})]_vars

\* A group has been registered after an earlier one expired, and a later
\* selection has run over both.
C6_Witness ==
    /\ pc = "idle"
    /\ result.kind = "group"
    /\ \E e \in Range(expiredGroupList) :
           /\ e.id \notin Ids(startActive)
           /\ \E g \in Range(startActive) :
                  /\ g.registrationTime > e.registrationTime + e.timeout
                  /\ result.agreement = g

\* ---------------------------------------------------------------------- C7
\* C7: whenever a selection responds with an agreement, that agreement has
\* state active and is an element of the active list at the moment of the
\* response, and it is not an agreement of the expired list.
C7_NeverReturnsExpired ==
    [][(pc = "selecting" /\ pc' = "idle" /\ result'.kind = "group") =>
          /\ result'.agreement.state = "active"
          /\ result'.agreement \in Range(activeGroupList')
          /\ result'.agreement.id \notin Ids(expiredGroupList')]_vars

\* A selection has expired one group and has responded with another.
C7_Witness ==
    /\ pc = "idle"
    /\ blockTime = callTime
    /\ evictions >= 1
    /\ result.kind = "group"
    /\ result.agreement \in Range(activeGroupList)
    /\ Ids(startActive) \cap Ids(expiredGroupList) # {}

\* ---------------------------------------------------------------------- C8
\* C8: with the counter above the threshold, the chosen candidate is expired
\* (moved to the expired list, state expired) iff blockTime >
\* registrationTime + timeout and is the response iff blockTime <=
\* registrationTime + timeout; a group registered at 500 with timeout 100 is
\* not expired at 550 nor at 600 and is expired at 601.
C8_StrictExpiry ==
    [][/\ (pc = "selecting" /\ activeGroupsCounter > activeGroupsThreshold
              /\ activeGroupList # <<>>) =>
            \E i \in 1..Len(activeGroupList) :
                IF blockTime > activeGroupList[i].registrationTime
                                   + activeGroupList[i].timeout
                THEN /\ Moved(i)
                     /\ pc' = "selecting"
                     /\ result' = result
                ELSE /\ UNCHANGED registry
                     /\ pc' = "idle"
                     /\ result' = GroupResult(activeGroupList[i])
       /\ LET g == [id |-> 1, members |-> <<1, 2, 3>>, registrationTime |-> 500,
                    timeout |-> 100, state |-> "active"]
          IN  /\ ~IsExpired(g, 550)
              /\ ~IsExpired(g, 600)
              /\ IsExpired(g, 601)]_vars

\* In one call, above the threshold throughout, a group was expired one block
\* after registrationTime + timeout and another was presented at exactly
\* registrationTime + timeout.
C8_Witness ==
    /\ pc = "idle"
    /\ blockTime = callTime
    /\ evictions >= 1
    /\ startCounter - evictions > activeGroupsThreshold
    /\ result.kind = "group"
    /\ callTime = result.agreement.registrationTime + result.agreement.timeout
    /\ \E e \in Range(expiredGroupList) :
           /\ e.id \in Ids(startActive)
           /\ callTime = e.registrationTime + e.timeout + 1

\* ---------------------------------------------------------------------- C9
\* C9 as claimed: a selection ends after at most counter - T expirations
\* (at most counter when T = 0).
C9_Terminates_AsClaimed ==
    evictions <= Max0(startCounter - activeGroupsThreshold)

\* C9 amended: a selection ends after at most counter - (T - 1) expirations
\* when T >= 1 and counter >= T, at most counter when T = 0, and none when
\* counter < T: every iteration that does not respond strictly shrinks the
\* active list, a selection in progress always has a next iteration, and it
\* responds as soon as the counter is below T or the list is empty.
C9_Terminates ==
    /\ evictions <= Max0(startCounter - Max0(activeGroupsThreshold - 1))
    /\ pc = "selecting" =>
           /\ evictions = Len(startActive) - Len(activeGroupList)
           /\ ENABLED SelectionStep
           /\ (activeGroupsCounter < activeGroupsThreshold
                   \/ activeGroupList = <<>>) =>
                  ~ENABLED (\E i \in 1..Len(activeGroupList) : ExpireGroup(i))

\* With T = 2 a call over three groups has ended after two expirations.
C9_Witness ==
    /\ pc = "idle"
    /\ blockTime = callTime
    /\ activeGroupsThreshold = 2
    /\ startCounter = 3
    /\ evictions = 2
    /\ result.kind = "group"

\* --------------------------------------------------------------------- C10
\* C10: a selection called on an empty registry, or with T = 0 and every
\* active group timed out, ends with the "no eligible group" outcome, not
\* with an agreement; in the second case every agreement active at the call
\* is then in the expired list, the active list is empty and the counter is 0.
C10_NoEligibleGroup ==
    [][(/\ pc = "selecting"
        /\ pc' = "idle"
        /\ \/ startActive = <<>>
           \/ /\ activeGroupsThreshold = 0
              /\ \A g \in Range(startActive) :
                     callTime > g.registrationTime + g.timeout) =>
          /\ result' = NoEligibleGroupResult
          /\ activeGroupList' = <<>>
          /\ activeGroupsCounter' = 0
          /\ \A g \in Range(startActive) :
                 [g EXCEPT !.state = "expired"] \in Range(expiredGroupList')]_vars

\* With T = 0 a call over three timed-out groups has ended with "no eligible
\* group".
C10_Witness ==
    /\ pc = "idle"
    /\ blockTime = callTime
    /\ activeGroupsThreshold = 0
    /\ Len(startActive) = 3
    /\ evictions = 3
    /\ result = NoEligibleGroupResult
    /\ activeGroupsCounter = 0
\* --------------------------------------------------------------------- C11
\* C11: each registration adds exactly one new agreement, with state active,
\* registrationTime = the current block time, the timeout and membership
\* given to it and an identifier carried by no agreement of either list; it
\* is appended at the end of the active list (the existing entries keep
\* their order), the counter increases by exactly 1, and the expired list
\* and every existing agreement are unchanged.
C11_Registration ==
    [][(pc = "idle" /\ registry' # registry) =>
          /\ Len(activeGroupList') = Len(activeGroupList) + 1
          /\ SubSeq(activeGroupList', 1, Len(activeGroupList)) = activeGroupList
          /\ LET g == activeGroupList'[Len(activeGroupList')]
             IN  /\ g.state = "active"
                 /\ g.registrationTime = blockTime
                 /\ g.timeout \in 1..MaxTimeout
                 /\ g.members \in MemberLists
                 /\ g.id \notin Ids(activeGroupList) \cup Ids(expiredGroupList)
          /\ activeGroupsCounter' = activeGroupsCounter + 1
          /\ expiredGroupList' = expiredGroupList]_vars

\* A group has been registered at a later block than the one before it,
\* after an earlier group expired.
C11_Witness ==
    /\ pc = "idle"
    /\ Len(expiredGroupList) = 1
    /\ Len(activeGroupList) = 2
    /\ activeGroupList[2].registrationTime = blockTime
    /\ activeGroupList[2].registrationTime > activeGroupList[1].registrationTime
    /\ activeGroupList[2].id = 3
\* ============================================== claims on the fault filters
\* members - inactiveMembers - disqualifiedMembers, as a set.
OperatingSet == (Range(members) \ inactiveMembers) \ disqualifiedMembers

\* A step that is a call of FlushInactiveMembers on the live filter.
InactiveFlushStep ==
    /\ filter.type = "InactiveMemberFilter"
    /\ filter' = filter
    /\ lastCall'.op = "FlushInactiveMembers"

\* A step that is a call of FlushDisqualifiedMembers on the live filter.
DisqualifiedFlushStep ==
    /\ filter.type = "DisqualifiedMemberFilter"
    /\ filter' = filter
    /\ lastCall'.op = "FlushDisqualifiedMembers"

\* --------------------------------------------------------------------- C12
\* C12: in every fault-set state reached by flushes, for every MemberIndex
\* id, IsSenderAccepted(id) is true iff id is in members and in neither
\* inactiveMembers nor disqualifiedMembers, i.e. iff id is an operating
\* member; the package-level IsSenderAccepted(filter, message) answers what
\* the Group answers for message.SenderID(), and so did the last call made.
C12_FilteringConsistency ==
    /\ \A id \in 0..(GroupSize + 1) :
           /\ IsSenderAccepted(ProtocolMessage(id)) <=> id \in OperatingSet
           /\ IsSenderAccepted(ProtocolMessage(id)) <=>
                  \E k \in 1..Len(GroupOperatingMemberIDs) :
                      GroupOperatingMemberIDs[k] = id
           /\ IsSenderAccepted(ProtocolMessage(id)) = GroupIsSenderAccepted(id)
    /\ lastCall.op = "IsSenderAccepted" =>
           (lastCall.answer <=> lastCall.arg \in OperatingSet)

\* After flushes of both kinds a message of an inactive member was rejected.
C12_Witness ==
    /\ lastCall.op = "IsSenderAccepted"
    /\ lastCall.answer = FALSE
    /\ lastCall.arg \in inactiveMembers
    /\ disqualifiedMembers # {}
    /\ Len(GroupOperatingMemberIDs) = 1

\* --------------------------------------------------------------------- C13
\* C13: IsSenderAccepted called with any id, an id never in members
\* included, answers a boolean (false for an unknown id) and leaves members,
\* inactiveMembers, disqualifiedMembers and the filter's phase-local list
\* unchanged: it flushes nothing.
C13_FilteringPureRead ==
    [][lastCall'.op = "IsSenderAccepted" =>
          /\ UNCHANGED <<members, inactiveMembers, disqualifiedMembers, filter>>
          /\ lastCall'.answer \in BOOLEAN
          /\ (lastCall'.arg \notin Range(members) => lastCall'.answer = FALSE)]_vars

\* With marks pending on a live filter, a message of an index outside the
\* group was rejected.
C13_Witness ==
    /\ lastCall = Call("IsSenderAccepted", GroupSize + 1, FALSE)
    /\ filter.type = "InactiveMemberFilter"
    /\ Len(filter.phaseActiveMembers) = 1
    /\ inactiveMembers = {}

\* --------------------------------------------------------------------- C14
\* C14: FlushInactiveMembers on an InactiveMemberFilter owned by M never adds
\* M to inactiveMembers, whatever was marked active on the filter.
C14_SelfExemptInactive ==
    [][InactiveFlushStep =>
          (filter.selfMemberID \in inactiveMembers'
               => filter.selfMemberID \in inactiveMembers)]_vars

\* A filter with no mark at all was flushed: every other member of a group
\* of three is inactive, the owner is not.
C14_Witness ==
    /\ lastCall.op = "FlushInactiveMembers"
    /\ filter.phaseActiveMembers = <<>>
    /\ Len(members) = 3
    /\ inactiveMembers = Range(members) \ {filter.selfMemberID}
    /\ disqualifiedMembers = {}

\* --------------------------------------------------------------------- C15
\* C15: FlushDisqualifiedMembers on a DisqualifiedMemberFilter owned by M
\* never adds M to disqualifiedMembers, even when M was marked as
\* disqualified on that filter, once or more.
C15_SelfExemptDisqualified ==
    [][DisqualifiedFlushStep =>
          (filter.selfMemberID \in disqualifiedMembers'
               => filter.selfMemberID \in disqualifiedMembers)]_vars

\* The owner marked itself twice and flushed: it is not disqualified.
C15_Witness ==
    /\ lastCall.op = "FlushDisqualifiedMembers"
    /\ filter.phaseDisqualifiedMembers =
           <<filter.selfMemberID, filter.selfMemberID>>
    /\ filter.selfMemberID \notin disqualifiedMembers
    /\ filter.selfMemberID \notin inactiveMembers

\* --------------------------------------------------------------------- C16
\* C16: across marks and flushes of any number of phases, inactiveMembers
\* and disqualifiedMembers only grow: every index in either set before a
\* step is in it after the step.
C16_Monotonic ==
    [][/\ inactiveMembers \subseteq inactiveMembers'
       /\ disqualifiedMembers \subseteq disqualifiedMembers']_vars

\* An inactivity flush of a later phase has run over a Group that already
\* had an inactive and a disqualified member.
C16_Witness ==
    /\ lastCall.op = "FlushInactiveMembers"
    /\ Cardinality(inactiveMembers) = 1
    /\ Cardinality(disqualifiedMembers) = 1
    /\ filter.phaseActiveMembers = <<>>
    /\ Len(members) = 3

\* --------------------------------------------------------------------- C17
\* C17: with O the operating members at flush time, self the filter's owner
\* and A the indexes marked active on the filter, FlushInactiveMembers sets
\* inactiveMembers to the old inactiveMembers plus {m in O : m # self and
\* m not in A}, and changes nothing else.
C17_FlushInactiveResult ==
    [][InactiveFlushStep =>
          /\ inactiveMembers' =
                 inactiveMembers \cup
                     {m \in OperatingSet :
                          /\ m # filter.selfMemberID
                          /\ m \notin Range(filter.phaseActiveMembers)}
          /\ UNCHANGED <<members, disqualifiedMembers>>]_vars

\* In a group of three, the owner marked one member and flushed: the member
\* it did not mark is the one inactive member, two members operate.
C17_Witness ==
    /\ lastCall.op = "FlushInactiveMembers"
    /\ Len(members) = 3
    /\ filter.selfMemberID = 1
    /\ filter.phaseActiveMembers = <<2>>
    /\ inactiveMembers = {3}
    /\ Len(GroupOperatingMemberIDs) = 2

\* --------------------------------------------------------------------- C18
\* C18: FlushDisqualifiedMembers adds a member to disqualifiedMembers only if
\* it was marked as disqualified on this filter and is not the owner; a
\* filter without marks leaves disqualifiedMembers as it is; every operating
\* member other than the owner that was marked is disqualified after it.
C18_FlushDisqualifiedResult ==
    [][DisqualifiedFlushStep =>
          /\ disqualifiedMembers' \ disqualifiedMembers \subseteq
                 Range(filter.phaseDisqualifiedMembers) \ {filter.selfMemberID}
          /\ (filter.phaseDisqualifiedMembers = <<>> =>
                 disqualifiedMembers' = disqualifiedMembers)
          /\ \A m \in OperatingSet :
                 (m # filter.selfMemberID
                      /\ m \in Range(filter.phaseDisqualifiedMembers))
                     => m \in disqualifiedMembers'
          /\ UNCHANGED <<members, inactiveMembers>>]_vars

\* A filter with marks on one operating member and on an index outside the
\* group was flushed: exactly the member is disqualified.
C18_Witness ==
    /\ lastCall.op = "FlushDisqualifiedMembers"
    /\ Len(members) = 3
    /\ filter.selfMemberID = 1
    /\ filter.phaseDisqualifiedMembers = <<3, 4>>
    /\ disqualifiedMembers = {3}

\* --------------------------------------------------------------------- C19
\* Member X is inactive since an earlier phase, and the owner of the live
\* DisqualifiedMemberFilter, another member, has marked X as disqualified.
InactiveAndMarked(X) ==
    /\ X \in Range(members)
    /\ X \in inactiveMembers
    /\ X # filter.selfMemberID
    /\ X \in Range(filter.phaseDisqualifiedMembers)

C20_OperatingComplete_AsClaimed ==
    [][/\ Range(GroupOperatingMemberIDs)' = OperatingSet'
       /\ InactiveFlushStep =>
              \A m \in OperatingSet' :
                  \/ m \in Range(filter.phaseActiveMembers)
                  \/ Len(members) = 1]_vars

\* C20 amended: the operating members are members - inactiveMembers -
\* disqualifiedMembers, and every member operating after an inactivity flush
\* was considered by it and was marked active on that filter or is the
\* filter's owner, which needs no mark, in a group of any size.
C20_OperatingComplete ==
    [][/\ Range(GroupOperatingMemberIDs)' = OperatingSet'
       /\ InactiveFlushStep =>
              \A m \in OperatingSet' :
                  /\ m \in OperatingSet
                  /\ \/ m \in Range(filter.phaseActiveMembers)
                     \/ m = filter.selfMemberID]_vars

\* In a group of three the owner marked the two others, not itself, and
\* flushed: all three operate.
C20_Witness ==
    /\ lastCall.op = "FlushInactiveMembers"
    /\ Len(members) = 3
    /\ filter.selfMemberID = 1
    /\ filter.phaseActiveMembers = <<2, 3>>
    /\ Len(GroupOperatingMemberIDs) = 3

\* ------------------------------------------------------- marks and flushes
\* A step that is a call of MarkMemberAsActive on the live filter.
ActiveMarkStep ==
    /\ lastCall'.op = "MarkMemberAsActive"
    /\ filter' # filter

\* A step that is a call of MarkMemberAsDisqualified on the live filter.
DisqualifiedMarkStep ==
    /\ lastCall'.op = "MarkMemberAsDisqualified"
    /\ filter' # filter

\* What a flush of the live filter would leave in the Group's fault set.
InactiveFlushOutcome ==
    InactiveAfterFlush(GroupOperatingMemberIDs, 1, inactiveMembers)

DisqualifiedFlushOutcome ==
    DisqualifiedAfterFlush(GroupOperatingMemberIDs, 1, disqualifiedMembers)

\* The marks made on the live filter, in the order of the calls.
Marks ==
    IF filter.type = "InactiveMemberFilter"
    THEN filter.phaseActiveMembers
    ELSE filter.phaseDisqualifiedMembers

\* The marks q with the k-th and the next one made in the other order.
Swap(q, k) ==
    [i \in 1..Len(q) |->
         IF i = k THEN q[k + 1] ELSE IF i = k + 1 THEN q[k] ELSE q[i]]

\* The live filter with the marks q in place of its own, all else the same.
FilterHad(q) ==
    /\ filter' =
           IF filter.type = "InactiveMemberFilter"
           THEN [filter EXCEPT !.phaseActiveMembers = q]
           ELSE [filter EXCEPT !.phaseDisqualifiedMembers = q]
    /\ UNCHANGED <<members, inactiveMembers, disqualifiedMembers, lastCall>>
    /\ UNCHANGED flushVars
    /\ UNCHANGED registryVars
    /\ UNCHANGED beaconVars

\* A flush of the live filter would leave the Group as a flush of the same
\* filter with the marks q would.
SameFlushWith(q) ==
    ~ENABLED (/\ FilterHad(q)
              /\ \/ InactiveFlushOutcome' # InactiveFlushOutcome
                 \/ DisqualifiedFlushOutcome' # DisqualifiedFlushOutcome)

\* --------------------------------------------------------------------- C21
\* C21: a mark adds its index to the set of indexes marked on the filter; a
\* mark of an index that is marked already leaves that set, and the Group
\* state a flush would produce, as they are; a flush of the filter would
\* leave the Group the same had two marks been made in the other order or
\* had a repeated mark been made once less; and a flush produces a Group
\* state that depends on the marks only through their set.
C21_MarksIdempotent ==
    [][/\ ActiveMarkStep =>
              /\ Range(filter'.phaseActiveMembers) =
                     Range(filter.phaseActiveMembers) \cup {lastCall'.arg}
              /\ lastCall'.arg \in Range(filter.phaseActiveMembers) =>
                     /\ Range(filter'.phaseActiveMembers) =
                            Range(filter.phaseActiveMembers)
                     /\ InactiveFlushOutcome' = InactiveFlushOutcome
       /\ DisqualifiedMarkStep =>
              /\ Range(filter'.phaseDisqualifiedMembers) =
                     Range(filter.phaseDisqualifiedMembers) \cup {lastCall'.arg}
              /\ lastCall'.arg \in Range(filter.phaseDisqualifiedMembers) =>
                     /\ Range(filter'.phaseDisqualifiedMembers) =
                            Range(filter.phaseDisqualifiedMembers)
                     /\ DisqualifiedFlushOutcome' = DisqualifiedFlushOutcome
       /\ \A k \in 1..(Len(Marks) - 1) : SameFlushWith(Swap(Marks, k))
       /\ \A k \in 1..Len(Marks) :
              (\E j \in 1..Len(Marks) : j # k /\ Marks[j] = Marks[k]) =>
                  SameFlushWith(RemoveAt(Marks, k))
       /\ InactiveFlushStep =>
              inactiveMembers' =
                  inactiveMembers \cup
                      (OperatingSet \ (Range(filter.phaseActiveMembers)
                                           \cup {filter.selfMemberID}))
       /\ DisqualifiedFlushStep =>
              disqualifiedMembers' =
                  disqualifiedMembers \cup
                      (OperatingSet \cap (Range(filter.phaseDisqualifiedMembers)
                                              \ {filter.selfMemberID}))]_vars

\* Member 3 was marked active twice on the filter of member 1, which was then
\* flushed: member 2 alone is inactive.
C21_Witness ==
    /\ lastCall.op = "FlushInactiveMembers"
    /\ Len(members) = 3
    /\ filter.selfMemberID = 1
    /\ filter.phaseActiveMembers = <<3, 3>>
    /\ inactiveMembers = {2}

\* --------------------------------------------------------------------- C22
\* C22: inactiveMembers and disqualifiedMembers are subsets of members in
\* every reachable state; a mark of an index that is not in members, as
\* active or as disqualified, changes nothing of the Group and leaves what a
\* flush would produce as it was without that mark.
C22_InvalidMarksHarmless ==
    [][/\ inactiveMembers' \subseteq Range(members')
       /\ disqualifiedMembers' \subseteq Range(members')
       /\ ((ActiveMarkStep \/ DisqualifiedMarkStep)
               /\ lastCall'.arg \notin Range(members)) =>
              /\ UNCHANGED <<members, inactiveMembers, disqualifiedMembers>>
              /\ InactiveFlushOutcome' = InactiveFlushOutcome
              /\ DisqualifiedFlushOutcome' = DisqualifiedFlushOutcome]_vars

\* Index 4, which is in no group, and member 2 were marked active on the
\* filter of member 1, which was then flushed: member 3 alone is inactive.
C22_Witness ==
    /\ lastCall.op = "FlushInactiveMembers"
    /\ Len(members) = 3
    /\ filter.selfMemberID = 1
    /\ filter.phaseActiveMembers = <<4, 2>>
    /\ inactiveMembers = {3}
    /\ disqualifiedMembers = {}

\* --------------------------------------------------------------------- C23
\* C23: no step, be it a mark, a flush or an IsSenderAccepted call, changes
\* the members sequence, in content or in order; of the Group only
\* inactiveMembers and disqualifiedMembers change, and only by a flush.
C23_MembershipFrozen ==
    [][/\ members' = members
       /\ (inactiveMembers' # inactiveMembers
               \/ disqualifiedMembers' # disqualifiedMembers) =>
              (InactiveFlushStep \/ DisqualifiedFlushStep)]_vars

\* Flushes of both kinds have filled both fault sets of a group of three, and
\* a message was filtered afterwards: the members are as at formation.
C23_Witness ==
    /\ members = <<1, 2, 3>>
    /\ inactiveMembers # {}
    /\ disqualifiedMembers # {}
    /\ lastCall.op = "IsSenderAccepted"
    /\ filter.type = "DisqualifiedMemberFilter"

\* --------------------------------------------------------------------- C24
\* The registry is whole: the counter is the length of the active list and
\* every agreement registered so far is in exactly one of the two lists.
RegistryWhole ==
    /\ activeGroupsCounter = Len(activeGroupList)
    /\ \A id \in 1..(nextId - 1) :
           (id \in Ids(activeGroupList)) # (id \in Ids(expiredGroupList))
    /\ Cardinality(Ids(activeGroupList)) = Len(activeGroupList)
    /\ Cardinality(Ids(expiredGroupList)) = Len(expiredGroupList)

FaultSetInFlush ==
    IF filter.type = "InactiveMemberFilter"
    THEN inactiveMembers
    ELSE disqualifiedMembers

\* The fault set once the running flush has added all of its members.
FaultSetAfterFlush ==
    IF filter.type = "InactiveMemberFilter"
    THEN InactiveAfterFlush(flushLoop.operating, 1, flushBefore)
    ELSE DisqualifiedAfterFlush(flushLoop.operating, 1, flushBefore)

\* C25 as claimed: a mark changes nothing of the Group, so a phase given up
\* before its flush leaves both fault sets as the last completed flush left
\* them; and an IsSenderAccepted call made while a flush is running finds
\* the fault set either as it was before the flush or with all of the
\* flush's members added, never with only some of them.
C25_NoPartialFlush_AsClaimed ==
    [][/\ (ActiveMarkStep \/ DisqualifiedMarkStep) =>
              UNCHANGED <<members, inactiveMembers, disqualifiedMembers>>
       /\ (lastCall'.op = "IsSenderAccepted" /\ flushLoop # NoLoop) =>
              FaultSetInFlush \in {flushBefore, FaultSetAfterFlush}]_vars

\* --------------------------------------------------------------------- C26
\* The sequence s is the sequence t with some of its entries left out.
RECURSIVE IsSubSeq(_, _)
IsSubSeq(s, t) ==
    IF s = <<>> THEN TRUE
    ELSE IF t = <<>> THEN FALSE
    ELSE IF Head(s) = Head(t) THEN IsSubSeq(Tail(s), Tail(t))
    ELSE IsSubSeq(s, Tail(t))

\* C26: whatever was pruned from the expired list, and whenever between
\* registry operations, the active list, the counter, the progress of each
\* selection and its outcome are those of the same run without pruning
\* (given the same registrations, blocks, calls and random candidates); the
\* expired list is that run's expired list without the pruned agreements.
C26_PruningInvisible ==
    /\ activeGroupList = shadow.activeGroupList
    /\ activeGroupsCounter = shadow.activeGroupsCounter
    /\ pc = shadow.pc
    /\ result = shadow.result
    /\ evictions <= Len(shadow.expiredGroupList)
    /\ IsSubSeq(expiredGroupList, shadow.expiredGroupList)

\* The agreement expired by an earlier call was pruned; the selection now in
\* progress has expired another one.
C26_Witness ==
    /\ pc = "selecting"
    /\ evictions = 1
    /\ Len(shadow.expiredGroupList) = 2
    /\ expiredGroupList = <<shadow.expiredGroupList[2]>>
    /\ shadow.expiredGroupList[1].id \notin Ids(startActive)
    /\ shadow.expiredGroupList[2].id \in Ids(startActive)
    /\ activeGroupList # <<>>

\* --------------------------------------------------------------------- C27
\* C27: the boundary as RFC 6 states it.  While the number of active groups
\* is below the threshold the candidate is presented without a timeout
\* check; when it is equal to or above the threshold a timed-out candidate is
\* expired and the next group is selected, and a candidate that has not
\* timed out is presented; so a selection ends with a group only when that
\* group has not timed out or the number of active groups is below the
\* threshold.
C27_RfcThresholdBoundary ==
    [][/\ (pc = "selecting" /\ activeGroupList # <<>>) =>
              IF activeGroupsCounter < activeGroupsThreshold
              THEN /\ UNCHANGED registry
                   /\ pc' = "idle"
                   /\ result'.kind = "group"
                   /\ result'.agreement \in Range(activeGroupList)
              ELSE \E i \in 1..Len(activeGroupList) :
                       IF blockTime > activeGroupList[i].registrationTime
                                          + activeGroupList[i].timeout
                       THEN /\ Moved(i)
                            /\ activeGroupsCounter' = activeGroupsCounter - 1
                            /\ pc' = "selecting"
                       ELSE /\ UNCHANGED registry
                            /\ pc' = "idle"
                            /\ result' = GroupResult(activeGroupList[i])
       /\ (pc = "selecting" /\ pc' = "idle" /\ result'.kind = "group") =>
              \/ blockTime <= result'.agreement.registrationTime
                                  + result'.agreement.timeout
              \/ activeGroupsCounter' < activeGroupsThreshold]_vars

\* With T = 2 a call began with exactly two active groups, expired one that
\* had timed out and then presented the other, timed out as well, once the
\* counter was below the threshold.
C27_Witness ==
    /\ pc = "idle"
    /\ blockTime = callTime
    /\ activeGroupsThreshold = 2
    /\ startCounter = 2
    /\ evictions = 1
    /\ activeGroupsCounter = 1
    /\ result.kind = "group"
    /\ callTime > result.agreement.registrationTime + result.agreement.timeout

\* --------------------------------------------------------------------- C28
\* C28 as claimed: when a fresh inactivity filter takes the place of an
\* inactivity filter, every member marked active on the earlier one and not
\* marked on the fresh one is inactive after the fresh filter's flush.
C28_PhaseIsolation_AsClaimed ==
    [][(lastCall'.op = "NewInactiveMemberFilter"
            /\ filter.type = "InactiveMemberFilter") =>
          \A m \in Range(members) \cap Range(filter.phaseActiveMembers) :
              m \in InactiveFlushOutcome']_vars

\* C28 amended: a filter made by NewInactiveMemberFilter or
\* NewDisqualifiedMemberFilter has no marks, whatever was marked on the
\* filter before it, and making it changes nothing of the Group: a flush of
\* the new inactivity filter as it is would make inactive exactly the
\* members that are still operating, its owner excepted (a member that was
\* disqualified in between, or that owns the filter, is not made inactive),
\* and a flush of the new disqualification filter as it is would disqualify
\* nobody.  A flush looks at the marks of its own filter only: an operating
\* member that is not marked on the flushed inactivity filter, and is not
\* its owner, is inactive afterwards, and a member that is not marked on the
\* flushed disqualification filter is not disqualified by it.
C28_PhaseIsolation ==
    [][/\ lastCall'.op = "NewInactiveMemberFilter" =>
              /\ filter'.type = "InactiveMemberFilter"
              /\ filter'.selfMemberID = lastCall'.arg
              /\ filter'.phaseActiveMembers = <<>>
              /\ UNCHANGED <<members, inactiveMembers, disqualifiedMembers>>
              /\ InactiveFlushOutcome' =
                     inactiveMembers \cup (OperatingSet \ {lastCall'.arg})
       /\ lastCall'.op = "NewDisqualifiedMemberFilter" =>
              /\ filter'.type = "DisqualifiedMemberFilter"
              /\ filter'.selfMemberID = lastCall'.arg
              /\ filter'.phaseDisqualifiedMembers = <<>>
              /\ UNCHANGED <<members, inactiveMembers, disqualifiedMembers>>
              /\ DisqualifiedFlushOutcome' = disqualifiedMembers
       /\ InactiveFlushStep =>
              \A m \in OperatingSet :
                  (m # filter.selfMemberID
                       /\ m \notin Range(filter.phaseActiveMembers))
                      => m \in inactiveMembers'
       /\ DisqualifiedFlushStep =>
              \A m \in MemberIndexes :
                  m \notin Range(filter.phaseDisqualifiedMembers)
                      => (m \in disqualifiedMembers' <=> m \in disqualifiedMembers)]_vars

\* After a disqualification phase that disqualified member 3, member 1 made
\* a fresh inactivity filter and flushed it without a mark: member 2 is
\* inactive, member 3 is disqualified only.
C28_Witness ==
    /\ lastCall.op = "FlushInactiveMembers"
    /\ Len(members) = 3
    /\ filter.selfMemberID = 1
    /\ filter.phaseActiveMembers = <<>>
    /\ filter.phaseDisqualifiedMembers = <<>>
    /\ disqualifiedMembers = {3}
    /\ inactiveMembers = {2}

\* --------------------------------------------------------------------- C29
\* C29: for every MemberIndex id, if IsSenderAccepted(id) is false before a
\* step (a mark, a flush, a new filter or a filtering call) it is false
\* after it: the set of accepted senders only shrinks.
C29_RejectionPermanent ==
    [][\A id \in 0..(GroupSize + 1) :
           ~IsSenderAccepted(ProtocolMessage(id))
               => ~IsSenderAccepted(ProtocolMessage(id))']_vars

\* A message of member 2, inactive since an earlier phase, was rejected
\* while a later phase's disqualification filter held a mark, another member
\* being disqualified already.
C29_Witness ==
    /\ lastCall = Call("IsSenderAccepted", 2, FALSE)
    /\ 2 \in inactiveMembers
    /\ disqualifiedMembers # {}
    /\ filter.type = "DisqualifiedMemberFilter"
    /\ Len(filter.phaseDisqualifiedMembers) = 1

GroupState == <<members, inactiveMembers, disqualifiedMembers>>

\* C31: when the last call on a filter was its flush (no mark and no other
\* flush since), calling the same flush again on the same filter changes
\* neither the member list nor either fault set of the Group.
C31_FlushIdempotent ==
    /\ (filter.type = "InactiveMemberFilter"
            /\ lastCall.op = "FlushInactiveMembers")
           => ~ENABLED (FlushInactiveMembers /\ GroupState' # GroupState)
    /\ (filter.type = "DisqualifiedMemberFilter"
            /\ lastCall.op = "FlushDisqualifiedMembers")
           => ~ENABLED (FlushDisqualifiedMembers /\ GroupState' # GroupState)

\* Member 1 flushed a phase in which it heard of nobody: members 2 and 3 are
\* inactive, and the flush can be called again.
C31_Witness ==
    /\ lastCall.op = "FlushInactiveMembers"
    /\ filter.type = "InactiveMemberFilter"
    /\ Len(members) = 3
    /\ filter.selfMemberID = 1
    /\ filter.phaseActiveMembers = <<>>
    /\ inactiveMembers = {2, 3}
    /\ disqualifiedMembers = {}
    /\ ENABLED FlushInactiveMembers

\* --------------------------------------------------------------------- C32
\* syncStakingListWithRetry has returned.
SyncReturned ==
    \/ initPc \in {"OnRelayEntryRequested", "OnRelayEntryGenerated",
                   "OnGroupRegistered", "ctx.Done"}
    \/ initPc = "returned" /\ initReturn = "nil"

AllHandlers == {"RelayEntryRequested", "RelayEntryGenerated", "GroupRegistered"}

\* The events emitted since the group-registered handler was registered.
EventsSinceRegistration ==
    IF "GroupRegistered" \in handlers THEN (registeredAt + 1)..emitted ELSE {}

\* Handlers are there only after the sync returned, the sync has returned
\* exactly when the last GetStakerList call succeeded, every event since the
\* registration is waiting for its handler or has had one RegisterGroup
\* call, and nil is returned only after the cancellation, with all handlers
\* registered.
StartupOrder ==
    /\ handlers # {} => SyncReturned
    /\ SyncReturned <=> stakerListErr = "nil"
    /\ SyncReturned => stakerListCalls >= 1
    /\ pending \cup Range(registerGroupCalls) = EventsSinceRegistration
    /\ pending \cap Range(registerGroupCalls) = {}
    /\ Cardinality(Range(registerGroupCalls)) = Len(registerGroupCalls)
    /\ initReturn = "nil" => ctxDone /\ handlers = AllHandlers
    /\ initPc = "ctx.Done" => handlers = AllHandlers /\ initReturn = "none"

\* C32: the three handlers are registered only after
\* syncStakingListWithRetry returned, which it does only after a
\* GetStakerList call succeeded; a failed call does not end the sync and is
\* followed by another call, a successful one ends it; after the
\* registration every group-registered event gets exactly one RegisterGroup
\* call; Initialize stays at <-ctx.Done() until the context is cancelled and
\* then returns nil.
C32_StartupOrdering ==
    /\ []StartupOrder
    /\ [][/\ stakerListErr' = "err" /\ stakerListCalls' # stakerListCalls
             => ~SyncReturned' /\ initPc' = "NewTimer"
          /\ stakerListErr' = "nil" /\ stakerListCalls' # stakerListCalls
             => SyncReturned'
          /\ stakerListCalls' # stakerListCalls
             => stakerListCalls' = stakerListCalls + 1 /\ ~SyncReturned
          /\ initPc = "ctx.Done" /\ initPc' # initPc
             => ctxDone /\ initReturn' = "nil"
          /\ Len(registerGroupCalls') <= Len(registerGroupCalls) + 1]_vars
    /\ (initPc = "NewTimer" /\ stakerListErr = "err")
           ~> (initPc = "GetStakerList")
    /\ \A n \in 0..MaxCalls :
           (initPc = "GetStakerList" /\ stakerListCalls = n)
               ~> (stakerListCalls = n + 1)
    /\ \A e \in 1..MaxEvents :
           (e \in pending) ~> (e \in Range(registerGroupCalls))
    /\ (initPc = "ctx.Done" /\ ctxDone) ~> (initReturn = "nil")

\* Two calls of GetStakerList failed and the third succeeded; the first
\* event came before the registration and had no handler, the second came
\* after it and had its RegisterGroup call; the context was cancelled and
\* Initialize returned nil.
C32_Witness ==
    /\ stakerListCalls = 3
    /\ stakerListErr = "nil"
    /\ handlers = AllHandlers
    /\ registeredAt = 1
    /\ emitted = 2
    /\ pending = {}
    /\ registerGroupCalls = <<2>>
    /\ ctxDone
    /\ initPc = "returned"
    /\ initReturn = "nil"

====
